---- MODULE Spec2Model ----
(***************************************************************************)
(* A model of CameraTransform (src/CameraTransform/CameraTransform.py):    *)
(* the pose attributes of one camera instance, the cached camera matrix,   *)
(* the fix* helpers, the back-projection entry point and the fitting       *)
(* engine (_fit and the four fitCamParametersFrom* routines).              *)
(*                                                                         *)
(* Values.  A Python attribute value is one of                             *)
(*   Null            None                                                  *)
(*   Num(n)          the number n                                          *)
(*   Angle(hz, h)    the float _getAngleFromHorizonAndHeight(hz, h), kept   *)
(*                   as the expression the code evaluates, together    *)
(*                   with the im_height and fov_v_angle it reads (it is    *)
(*                   irrational); it is strictly monotone in h for h > 0   *)
(*                   and in hz, so two Angle values that differ in one     *)
(*                   argument only are different floats.                   *)
(*                                                                         *)
(* The camera matrix C = C1 . [R | t'] is kept as the record of the values *)
(* _initCameraMatrix builds it from.  With f_normed # 0 the left 3x3 block *)
(* of C determines R_roll.R_tilt.R_head and the last column determines     *)
(* R_tilt.t, so matrices built from different records (angles taken modulo *)
(* 360) are different matrices.                                            *)
(***************************************************************************)
EXTENDS Integers, Sequences, FiniteSets, TLC

VARIABLES
    pose,            \* height, tilt, roll, heading, pos_x, pos_y of the instance
    fixed_horizon,   \* self.fixed_horizon
    horizon_error,   \* self.horizon_error, in units of 0.01 (set to 0 by every _fit,
                     \* and read by no code before that)
    C,               \* self.C, the cached camera matrix
    pc,              \* "idle" between public calls, "minimize" inside scipy's minimize
    op,              \* the public call that ran last (or is running)
    args,            \* what that call was given
    fit_parameters,  \* the list _fit built, if the last call is a fit (else empty)
    entry,           \* the pose (but for tilt) at the entry of that fit routine
    lastEval,        \* the last evaluation of that fit's error function
    ret,             \* the outcome of the last public call
    earth,           \* the arguments and locals of a call of transCamToEarth
    intrinsics,      \* f, the sensor and image sizes, the fov angles, f_normed and C1
    gps,             \* lat, lon and cam_heading, the geographic anchor
    file,            \* the file that save writes and load reads
    backends,        \* cv2_installed and plt_installed, set when the module is imported
    probe            \* the arguments and the result of the last construction, top
                     \* view or pure transform (transWorldToCam, distanceBearing, ...)

camera == <<pose, fixed_horizon, horizon_error, C, pc, op, args, fit_parameters,
            entry, lastEval, ret>>

\* The state that the pose helpers, the fits and transCamToEarth leave alone.
rest == <<intrinsics, gps, file, backends, probe>>

vars == <<camera, earth, rest>>

-----------------------------------------------------------------------------
(* Values *)

Null == [tag |-> "none"]

Num(n) == [tag |-> "num", v |-> n]

Angle(hz, h) ==
    [tag |-> "angle", horizon |-> hz, height |-> h,
     im_height |-> intrinsics.im_height, fov_v_angle |-> intrinsics.fov_v_angle]

\* Python truthiness of an attribute value: None and 0 are false.
Truthy(v) == v # Null /\ v # Num(0)

\* self.im_width, as given to the constructor (an image 4000 pixels wide).
im_width == 4000

\* Class attributes: the estimates that seed the optimizer.
estimated_height == 30

estimated_tilt == 85

estimated_heading == 0

estimated_roll == 0

\* estimates of _fit, a dict: its keys in insertion order, and its values.
estimates_keys == <<"height", "tilt", "roll", "heading", "pos_x", "pos_y">>

estimates ==
    [height |-> estimated_height, tilt |-> estimated_tilt, roll |-> estimated_roll,
     heading |-> estimated_heading, pos_x |-> 0, pos_y |-> 0]

-----------------------------------------------------------------------------
(* Inputs *)

\* (observer_height, angel_to_horizon) given to the constructor; <<Null, Null>>
\* is a camera constructed without a pose.
ConstructorPoses == {<<Null, Null>>, <<Num(20), Num(80)>>}

RollInputs == {Num(10)}

HeightInputs == {Num(25)}

\* The line <<m, t>> that np.polyfit puts through the horizon points handed to
\* fixHorizon; <<0, 0>> is a horizon along the top pixel row.
HorizonLines == {<<0, 0>>, <<1, -1000>>}

\* The steps d by which the optimizer moves away from the seed vector.
Deltas == {0, 1}

\* Values of the observation cost and of the recomputed horizon centre
\* (both come out of the linear algebra on the observations).
CostValues == {0, 3}

HorizonCentres == {0, 7}

-----------------------------------------------------------------------------
(* Pure helpers *)

Range(s) == {s[i] : i \in 1..Len(s)}

\* list.remove(k) on a list without duplicates
Remove(s, k) == SelectSeq(s, LAMBDA e : e # k)

Abs(n) == IF n < 0 THEN -n ELSE n

\* -np.arctan(m) * 180 / np.pi for the slopes used here
NegArctanDeg(m) == CASE m = 0 -> 0 [] m = 1 -> -45 [] m = -1 -> 45

\* _getAngleFromHorizonAndHeight(horizon, height), both numbers
getAngleFromHorizonAndHeight(horizon, height) == Angle(horizon, height.v)

\* The matrix _initCameraMatrix() composes for pose p (no arguments given):
\* C = C1 . R, where roll and heading enter R as 0 when they are None or 0.
initCameraMatrix(p) ==
    [C1      |-> intrinsics.C1,
     height  |-> p.height,
     angle   |-> p.tilt,
     roll    |-> IF Truthy(p.roll) THEN p.roll ELSE Num(0),
     heading |-> IF Truthy(p.heading) THEN p.heading ELSE Num(0),
     pos_x   |-> p.pos_x,
     pos_y   |-> p.pos_y]

NoEval == [done |-> FALSE, p |-> <<>>, cost |-> 0, horizon2 |-> 0, penalty |-> 0, value |-> 0]

NoArgs == [X |-> FALSE, Y |-> FALSE, Z |-> FALSE, bearing |-> FALSE]

EntryKeys == {"height", "roll", "heading", "pos_x", "pos_y"}

NoEntry == [k \in EntryKeys |-> Null]

Ret(status) == [status |-> status, dimension |-> -1, x |-> <<>>]

\* No call of transCamToEarth is running or has run.  new_point and last_point
\* are None (Null) or a back-projected position; result is the list of columns.
NoCall ==
    [at |-> "idle", n |-> 0, H |-> 0, max_iter |-> 0, max_distance |-> 0,
     index |-> 0, i |-> 0,
     last_point |-> Null, new_point |-> Null, result |-> <<>>, error |-> "none"]

-----------------------------------------------------------------------------
(* Intrinsics *)

\* 2 * np.arctan(size / (2 * f)), kept as the expression the code evaluates
Fov(size, f) == [tag |-> "fov", size |-> size, f |-> f]

\* a / b as numpy evaluates it for a float64 b: the quotient (exact for the
\* inputs used here), or inf, -inf, nan for b = 0
Divide(a, b) ==
    IF b # 0 THEN Num(a \div b)
    ELSE IF a > 0 THEN [tag |-> "inf"]
    ELSE IF a < 0 THEN [tag |-> "-inf"]
    ELSE [tag |-> "nan"]

\* value * n for a number n
Times(value, n) ==
    IF value.tag = "num" THEN Num(value.v * n)
    ELSE IF n = 0 \/ value.tag = "nan" THEN [tag |-> "nan"]
    ELSE IF (value.tag = "inf") = (n > 0) THEN [tag |-> "inf"] ELSE [tag |-> "-inf"]

\* The class attributes f, sensor_width, ..., im_height: all None.  f_normed and
\* C1 do not exist before _initIntrinsicMatrix has run.
NoIntrinsics ==
    [f |-> Null, sensor_width |-> Null, sensor_height |-> Null,
     fov_h_angle |-> Null, fov_v_angle |-> Null, im_width |-> Null,
     im_height |-> Null, f_normed |-> Null, C1 |-> Null]

\* _initIntrinsicMatrix() for the attributes in: f_normed and the matrix C1,
\* kept as its entries [f_normed, im_width / 2, im_height / 2].  Lengths are in
\* mm here (the code stores m; only their ratio enters).
initIntrinsicMatrix(in) ==
    LET f_normed == Times(Divide(in.f.v, in.sensor_width.v), in.im_width.v)
    IN [in EXCEPT !.f_normed = f_normed,
                  !.C1 = [f_normed |-> f_normed,
                          cx |-> Divide(in.im_width.v, 2),
                          cy |-> Divide(in.im_height.v, 2)]]

\* The "if focal_length:" block of __init__, for a focal length that is not
\* None or 0.  sensor_size is [scalar |-> TRUE, w |-> width, h |-> 0] for a
\* number and [scalar |-> FALSE, w |-> width, h |-> height] for a pair; for a
\* number the height is sensor_size * im_height / im_width (im_width # 0).
constructIntrinsics(focal_length, sensor_size, image_size) ==
    LET sensor_height ==
            IF sensor_size.scalar
            THEN (sensor_size.w * image_size[2]) \div image_size[1]
            ELSE sensor_size.h
    IN initIntrinsicMatrix(
         [NoIntrinsics EXCEPT
             !.f = Num(focal_length),
             !.im_width = Num(image_size[1]),
             !.im_height = Num(image_size[2]),
             !.sensor_width = Num(sensor_size.w),
             !.sensor_height = Num(sensor_height),
             !.fov_h_angle = Fov(sensor_size.w, focal_length),
             !.fov_v_angle = Fov(sensor_height, focal_length)])

\* The camera of the main specification: focal length 16 mm, a sensor 8 mm
\* wide, an image of 4000 x 3000 pixels.
focal_length == 16

sensor_size == [scalar |-> TRUE, w |-> 8, h |-> 0]

im_height == 3000

NoAnchor == [lat |-> Null, lon |-> Null, cam_heading |-> Null]

NoFile == [tag |-> "none"]

NoProbe == [fn |-> "none"]

-----------------------------------------------------------------------------
(* Construction *)

\* CameraTransform(focal_length, sensor_size, image_size) of the main
\* specification, without a pose or with observer_height and angel_to_horizon
Constructed ==
    /\ intrinsics = constructIntrinsics(focal_length, sensor_size, <<im_width, im_height>>)
    /\ \E hp \in ConstructorPoses :
          /\ pose = [height |-> hp[1], tilt |-> hp[2], roll |-> Null,
                     heading |-> Num(0), pos_x |-> Num(0), pos_y |-> Num(0)]
          /\ C = IF hp[1] # Null THEN initCameraMatrix(pose) ELSE Null
    /\ fixed_horizon = Null
    /\ horizon_error = 0
    /\ pc = "idle"
    /\ op = "__init__"
    /\ args = NoArgs
    /\ fit_parameters = <<>>
    /\ entry = NoEntry
    /\ lastEval = NoEval
    /\ ret = Ret("ok")
    /\ earth = NoCall
    /\ gps = NoAnchor
    /\ file = NoFile
    /\ probe = NoProbe

\* Both optional packages were found when the module was imported.
Init ==
    /\ Constructed
    /\ backends = [cv2_installed |-> TRUE, plt_installed |-> TRUE]

-----------------------------------------------------------------------------
(* fixRoll, fixHeight, fixHorizon *)

fixRoll(roll) ==
    /\ pc = "idle"
    /\ pose' = [pose EXCEPT !.roll = roll]
    /\ op' = "fixRoll"
    /\ args' = NoArgs
    /\ fit_parameters' = <<>>
    /\ entry' = NoEntry
    /\ lastEval' = NoEval
    /\ ret' = Ret("ok")
    /\ UNCHANGED <<fixed_horizon, horizon_error, C, pc, earth, rest>>

\* A fixHeight that assigns im_height instead of height.
fixHeight_writesImHeight(height) ==
    /\ pc = "idle"
    /\ intrinsics' = [intrinsics EXCEPT !.im_height = height]
    /\ op' = "fixHeight"
    /\ args' = NoArgs
    /\ fit_parameters' = <<>>
    /\ entry' = NoEntry
    /\ lastEval' = NoEval
    /\ ret' = Ret("ok")
    /\ UNCHANGED <<pose, fixed_horizon, horizon_error, C, pc, earth, gps, file,
                   backends, probe>>

fixHeight(height) ==
    /\ pc = "idle"
    /\ pose' = [pose EXCEPT !.height = height]
    /\ op' = "fixHeight"
    /\ args' = NoArgs
    /\ fit_parameters' = <<>>
    /\ entry' = NoEntry
    /\ lastEval' = NoEval
    /\ ret' = Ret("ok")
    /\ UNCHANGED <<fixed_horizon, horizon_error, C, pc, earth, rest>>

\* A fixHorizon that sets the roll from the slope also when a roll is fixed.
fixHorizon_overwritesRoll(m, t) ==
    /\ pc = "idle"
    /\ LET centre == (intrinsics.im_width.v \div 2) * m + t
           p1 == [pose EXCEPT !.roll = Num(NegArctanDeg(m))]
           p2 == IF p1.height # Null
                 THEN [p1 EXCEPT !.tilt =
                          getAngleFromHorizonAndHeight(centre, p1.height)]
                 ELSE p1
       IN /\ fixed_horizon' = Num(centre)
          /\ pose' = p2
          /\ C' = IF p1.height # Null THEN initCameraMatrix(p2) ELSE C
    /\ op' = "fixHorizon"
    /\ args' = NoArgs
    /\ fit_parameters' = <<>>
    /\ entry' = NoEntry
    /\ lastEval' = NoEval
    /\ ret' = Ret("ok")
    /\ UNCHANGED <<horizon_error, pc, earth, rest>>

\* fixHorizon(horizon), where np.polyfit gives the line y = m x + t
fixHorizon(m, t) ==
    /\ pc = "idle"
    /\ IF intrinsics.im_width = Null
       THEN \* self.im_width / 2 raises TypeError before anything is assigned
            /\ ret' = Ret("TypeError")
            /\ UNCHANGED <<fixed_horizon, pose, C>>
       ELSE LET centre == (intrinsics.im_width.v \div 2) * m + t
                p1 == IF pose.roll = Null
                      THEN [pose EXCEPT !.roll = Num(NegArctanDeg(m))]
                      ELSE pose
                p2 == IF p1.height # Null
                      THEN [p1 EXCEPT !.tilt =
                               getAngleFromHorizonAndHeight(centre, p1.height)]
                      ELSE p1
            IN /\ fixed_horizon' = Num(centre)
               /\ pose' = p2
               /\ C' = IF p1.height # Null THEN initCameraMatrix(p2) ELSE C
               /\ ret' = Ret("ok")
    /\ op' = "fixHorizon"
    /\ args' = NoArgs
    /\ fit_parameters' = <<>>
    /\ entry' = NoEntry
    /\ lastEval' = NoEval
    /\ UNCHANGED <<horizon_error, pc, earth, rest>>

-----------------------------------------------------------------------------
(* transCamToWorld *)

\* (X is None) + (Y is None) + (Z is None); gX, gY, gZ say which were given
NoneCount(gX, gY, gZ) ==
    (IF gX THEN 0 ELSE 1) + (IF gY THEN 0 ELSE 1) + (IF gZ THEN 0 ELSE 1)

\* A check that rejects only a call that fixes no axis at all.
BadFixedAxes_none(gX, gY, gZ) == NoneCount(gX, gY, gZ) = 3

\* "test whether the input is good": the condition that raises ValueError
BadFixedAxes(gX, gY, gZ) == NoneCount(gX, gY, gZ) # 2

\* "process the input": the dimension that is held fixed
FixedDimension(gX, gY, gZ) == IF gX THEN 0 ELSE IF gY THEN 1 ELSE 2

\* transCamToWorld(x, X, Y, Z).  singular: np.linalg.solve finds the reduced
\* matrix singular for the points given.
transCamToWorld(gX, gY, gZ, singular) ==
    /\ pc = "idle"
    /\ op' = "transCamToWorld"
    /\ args' = [NoArgs EXCEPT !.X = gX, !.Y = gY, !.Z = gZ]
    /\ fit_parameters' = <<>>
    /\ entry' = NoEntry
    /\ lastEval' = NoEval
    /\ ret' = IF BadFixedAxes(gX, gY, gZ) THEN Ret("ValueError")
              ELSE IF C = Null THEN Ret("AttributeError")
              ELSE IF singular THEN Ret("LinAlgError")
              ELSE [Ret("ok") EXCEPT !.dimension = FixedDimension(gX, gY, gZ)]
    /\ UNCHANGED <<pose, fixed_horizon, horizon_error, C, pc, earth, rest>>

-----------------------------------------------------------------------------
(* The fitting engine *)

\* A list builder that forgets to remove a fixed heading.
free_parameters_keepHeading(p) ==
    LET l0 == estimates_keys
        l1 == IF p.roll # Null THEN Remove(l0, "roll") ELSE l0
        l3 == IF p.height # Null THEN Remove(l1, "height") ELSE l1
        l4 == IF p.pos_x # Null THEN Remove(l3, "pos_x") ELSE l3
        l5 == IF p.pos_y # Null THEN Remove(l4, "pos_y") ELSE l4
    IN l5

\* A list builder that forgets to remove a fixed roll and a fixed height.
free_parameters_keepFixed(p) ==
    LET l0 == estimates_keys
        l2 == IF p.heading # Null THEN Remove(l0, "heading") ELSE l0
        l4 == IF p.pos_x # Null THEN Remove(l2, "pos_x") ELSE l2
        l5 == IF p.pos_y # Null THEN Remove(l4, "pos_y") ELSE l4
    IN l5

\* A list builder that removes nothing: every fit optimizes all six parameters.
free_parameters_all(p) == estimates_keys

\* _fit, "remove known parameters from list": the free-parameter list for pose p
free_parameters(p) ==
    LET l0 == estimates_keys
        l1 == IF p.roll # Null THEN Remove(l0, "roll") ELSE l0
        l2 == IF p.heading # Null THEN Remove(l1, "heading") ELSE l1
        l3 == IF p.height # Null THEN Remove(l2, "height") ELSE l2
        l4 == IF p.pos_x # Null THEN Remove(l3, "pos_x") ELSE l3
        l5 == IF p.pos_y # Null THEN Remove(l4, "pos_y") ELSE l4
    IN l5

\* The seed vector [estimates[key] for key in fit_parameters]
seed(params) == [i \in 1..Len(params) |-> estimates[params[i]]]

\* The vectors the optimizer may try or return for the list params: the seed
\* vector moved by d * i in its i-th entry
TrialVectors(params) ==
    {[i \in 1..Len(params) |-> Num(seed(params)[i] + d * i)] : d \in Deltas}

\* error(p), "set the fit parameters": for key, value in zip(fit_parameters, p)
setFitParameters(p0, params, p) ==
    [k \in DOMAIN p0 |->
        IF \E i \in 1..Len(params) : params[i] = k
        THEN p[CHOOSE i \in 1..Len(params) : params[i] = k]
        ELSE p0[k]]

\* error(p), the horizon step: self.horizon_error after it, where h2 is the
\* centre of the horizon recomputed for the new camera matrix
horizonError(h2) ==
    IF Truthy(fixed_horizon) THEN Abs(fixed_horizon.v - h2) ELSE horizon_error

\* _fit up to the call of minimize, entered by a fit routine that has left the
\* pose as p0
fit(name, bearing, p0) ==
    /\ pc = "idle"
    /\ op' = name
    /\ args' = [NoArgs EXCEPT !.bearing = bearing]
    /\ entry' = [k \in EntryKeys |-> pose[k]]
    /\ pose' = p0
    /\ fit_parameters' = free_parameters(p0)
    /\ horizon_error' = 0
    /\ lastEval' = NoEval
    /\ pc' = "minimize"
    /\ ret' = Ret("running")
    /\ UNCHANGED <<fixed_horizon, C, earth, rest>>

fitCamParametersFromObjects == fit("fitCamParametersFromObjects", FALSE, pose)

\* A landmark fit that does not reset the heading when a bearing list is given.
fitCamParametersFromLandmarks_noReset(heading) ==
    fit("fitCamParametersFromLandmarks", heading, pose)

\* heading: whether a bearing list is given
fitCamParametersFromLandmarks(heading) ==
    fit("fitCamParametersFromLandmarks", heading,
        IF heading THEN [pose EXCEPT !.heading = Null] ELSE pose)

\* A point-correspondence fit that does not reset the position.
fitCamParametersFromPointCorrespondences_noReset ==
    fit("fitCamParametersFromPointCorrespondences", FALSE, pose)

fitCamParametersFromPointCorrespondences ==
    fit("fitCamParametersFromPointCorrespondences", FALSE,
        [pose EXCEPT !.pos_x = Null, !.pos_y = Null])

fitCamParametersFromLengths == fit("fitCamParametersFromLengths", FALSE, pose)

\* One call error(p): cost() returns c, the recomputed horizon centre is h2.
error(p, c, h2) ==
    /\ pose' = setFitParameters(pose, fit_parameters, p)
    /\ C' = initCameraMatrix(pose')
    /\ horizon_error' = horizonError(h2)
    /\ lastEval' = [done |-> TRUE, p |-> p, cost |-> c, horizon2 |-> h2,
                    penalty |-> horizon_error',
                    value |-> 100 * c + horizon_error']

\* minimize evaluates the error function at a trial vector
minimizeEvaluates(p, c, h2) ==
    /\ pc = "minimize"
    /\ error(p, c, h2)
    /\ UNCHANGED <<fixed_horizon, pc, op, args, fit_parameters, entry, ret, earth, rest>>

\* A _fit that returns without the last call of the error function.
fitReturns_noLastCall(x, c, h2) ==
    /\ pc = "minimize"
    /\ lastEval.done
    /\ pc' = "idle"
    /\ ret' = [Ret("ok") EXCEPT !.x = x]
    /\ UNCHANGED <<pose, C, horizon_error, lastEval, fixed_horizon, op, args,
                   fit_parameters, entry, earth, rest>>

\* minimize returns p["x"] = x; _fit calls error(p["x"]) a last time and returns p
fitReturns(x, c, h2) ==
    /\ pc = "minimize"
    /\ lastEval.done
    /\ error(x, c, h2)
    /\ pc' = "idle"
    /\ ret' = [Ret("ok") EXCEPT !.x = x]
    /\ UNCHANGED <<fixed_horizon, op, args, fit_parameters, entry, earth, rest>>

\* cost() raises inside an evaluation (np.linalg.solve on a singular matrix):
\* the exception leaves minimize, _fit and the fit routine
fitRaises(p, h2) ==
    /\ pc = "minimize"
    /\ pose' = setFitParameters(pose, fit_parameters, p)
    /\ C' = initCameraMatrix(pose')
    /\ horizon_error' = horizonError(h2)
    /\ pc' = "idle"
    /\ ret' = Ret("LinAlgError")
    /\ UNCHANGED <<fixed_horizon, op, args, fit_parameters, entry, lastEval, earth, rest>>

-----------------------------------------------------------------------------
(* transCamToEarth *)

\* Bounds on the calls of transCamToEarth that are explored: the number of
\* image points x.shape[1], and the iteration cap max_iter.
MaxPoints == 2

MaxIterCap == 2

\* The reference height H and the convergence distance max_distance of a call,
\* and the positions a back-projection may return (along the ground, in the
\* unit of max_distance).
HInputs == {0, 5}

MaxDistanceInputs == {1, 3}

Positions == {0, 2, 5}

\* transCamToEarth(x, H, max_iter, max_distance) is entered: result = [],
\* new_point = None, and the loop over the points starts.
transCamToEarth(n, H, max_iter, max_distance) ==
    /\ pc = "idle"
    /\ earth.at \in {"idle", "returned", "raised"}
    /\ earth' = [at |-> "for_index", n |-> n, H |-> H, max_iter |-> max_iter,
                 max_distance |-> max_distance, index |-> 0, i |-> 0,
                 last_point |-> Null, new_point |-> Null, result |-> <<>>,
                 error |-> "none"]
    /\ UNCHANGED <<camera, rest>>

\* for index in range(x.shape[1]): the next point starts with last_point = None
\* (new_point keeps what it holds), or the loop is over and the result returned.
forIndex ==
    /\ earth.at = "for_index"
    /\ earth' = IF earth.index < earth.n
                THEN [earth EXCEPT !.at = "for_i", !.i = 0, !.last_point = Null]
                ELSE [earth EXCEPT !.at = "returned"]
    /\ UNCHANGED <<camera, rest>>

\* One pass of for i in range(max_iter): the back-projection returns the
\* position y; close enough to the last one, the column is appended and the
\* inner loop left (break); otherwise y becomes last_point.
forI(y) ==
    /\ earth.at = "for_i"
    /\ earth.i < earth.max_iter
    /\ C # Null
    /\ earth' =
         IF earth.last_point # Null
            /\ Abs(y - earth.last_point.v) < earth.max_distance
         THEN [earth EXCEPT !.new_point = Num(y),
                            !.i = @ + 1,
                            !.result = Append(@, [point |-> Num(y), H |-> earth.H]),
                            !.index = @ + 1,
                            !.at = "for_index"]
         ELSE [earth EXCEPT !.new_point = Num(y),
                            !.i = @ + 1,
                            !.last_point = Num(y)]
    /\ UNCHANGED <<camera, rest>>

\* The else branch of the inner loop, taken when range(max_iter) is exhausted:
\* result.append([new_point[0], r * alpha, H]); new_point[0] raises TypeError
\* when new_point is still None.
forElse ==
    /\ earth.at = "for_i"
    /\ earth.i = earth.max_iter
    /\ earth' =
         IF earth.new_point = Null
         THEN [earth EXCEPT !.at = "raised", !.error = "TypeError"]
         ELSE [earth EXCEPT !.result =
                                Append(@, [point |-> earth.new_point, H |-> earth.H]),
                            !.index = @ + 1,
                            !.at = "for_index"]
    /\ UNCHANGED <<camera, rest>>

\* The back-projection of a pass raises: self.C is None (AttributeError), or
\* np.linalg.solve finds the reduced matrix singular (LinAlgError).
backProjectionRaises ==
    /\ earth.at = "for_i"
    /\ earth.i < earth.max_iter
    /\ earth' = [earth EXCEPT !.i = @ + 1, !.at = "raised",
                    !.error = IF C = Null THEN "AttributeError" ELSE "LinAlgError"]
    /\ UNCHANGED <<camera, rest>>

-----------------------------------------------------------------------------
Next ==
    \/ \E r \in RollInputs : fixRoll(r)
    \/ \E h \in HeightInputs : fixHeight(h)
    \/ \E l \in HorizonLines : fixHorizon(l[1], l[2])
    \/ \E gX, gY, gZ, singular \in BOOLEAN : transCamToWorld(gX, gY, gZ, singular)
    \/ fitCamParametersFromObjects
    \/ \E heading \in BOOLEAN : fitCamParametersFromLandmarks(heading)
    \/ fitCamParametersFromPointCorrespondences
    \/ fitCamParametersFromLengths
    \/ \E p \in TrialVectors(fit_parameters), c \in CostValues, h2 \in HorizonCentres :
          minimizeEvaluates(p, c, h2)
    \/ \E x \in TrialVectors(fit_parameters), c \in CostValues, h2 \in HorizonCentres :
          fitReturns(x, c, h2)
    \/ \E p \in TrialVectors(fit_parameters), h2 \in HorizonCentres : fitRaises(p, h2)

Spec == Init /\ [][Next]_vars

\* The calls of transCamToEarth on a camera as constructed.
NextEarth ==
    \/ \E n \in 0..MaxPoints, H \in HInputs, max_iter \in 0..MaxIterCap,
          max_distance \in MaxDistanceInputs :
          transCamToEarth(n, H, max_iter, max_distance)
    \/ forIndex
    \/ \E y \in Positions : forI(y)
    \/ forElse
    \/ backProjectionRaises

SpecEarth == Init /\ [][NextEarth]_vars

-----------------------------------------------------------------------------
(* Construction, the geographic anchor, save and load *)

\* A public call other than a fit or a transform returns or raises: the call
\* frame of the model is that of name with the outcome status.
called(name, status) ==
    /\ op' = name
    /\ args' = NoArgs
    /\ fit_parameters' = <<>>
    /\ entry' = NoEntry
    /\ lastEval' = NoEval
    /\ ret' = Ret(status)

\* CameraTransform(focal_length, sensor_size, image_size, observer_height,
\* angel_to_horizon) on a new instance, which replaces the one of the model;
\* fl is None or a number, hp is the pair observer_height, angel_to_horizon.
\* The file and the imported backends belong to the process and stay.
construct(fl, ss, is, hp) ==
    LET raisesZeroDivision == Truthy(fl) /\ ss.scalar /\ is[1] = 0
        in1 == IF ~Truthy(fl) THEN NoIntrinsics
               ELSE IF raisesZeroDivision
               THEN [NoIntrinsics EXCEPT !.f = fl, !.im_width = Num(is[1]),
                                         !.im_height = Num(is[2])]
               ELSE constructIntrinsics(fl.v, ss, is)
        p1 == [height |-> Null, tilt |-> Null, roll |-> Null,
               heading |-> Num(0), pos_x |-> Num(0), pos_y |-> Num(0)]
        p2 == [p1 EXCEPT !.height = hp[1], !.tilt = hp[2]]
        posed == ~raisesZeroDivision /\ hp[1] # Null
    IN /\ pc = "idle"
       /\ intrinsics' = in1
       /\ pose' = IF posed THEN p2 ELSE p1
       /\ C' = IF posed /\ in1.C1 # Null
               THEN [initCameraMatrix(p2) EXCEPT !.C1 = in1.C1]
               ELSE Null
       /\ called("__init__",
                 IF raisesZeroDivision THEN "ZeroDivisionError"
                 ELSE IF posed /\ in1.C1 = Null THEN "AttributeError"
                 ELSE "ok")
       /\ fixed_horizon' = Null
       /\ horizon_error' = 0
       /\ gps' = NoAnchor
       /\ probe' = [fn |-> "__init__", focal_length |-> fl, sensor_size |-> ss,
                    image_size |-> is]
       /\ UNCHANGED <<pc, earth, file, backends>>

\* setCamHeading(angle), angle in degrees (the code keeps it in radians, with
\* the rotation matrix it determines)
setCamHeading(angle) ==
    /\ pc = "idle"
    /\ gps' = [gps EXCEPT !.cam_heading = Num(angle)]
    /\ called("setCamHeading", "ok")
    /\ UNCHANGED <<pose, fixed_horizon, horizon_error, C, pc, earth,
                   intrinsics, file, backends, probe>>

setCamGPS(lat, lon) ==
    /\ pc = "idle"
    /\ gps' = [gps EXCEPT !.lat = Num(lat), !.lon = Num(lon)]
    /\ called("setCamGPS", "ok")
    /\ UNCHANGED <<pose, fixed_horizon, horizon_error, C, pc, earth,
                   intrinsics, file, backends, probe>>

\* The keys save writes
pose_keys == {"height", "roll", "heading", "tilt", "pos_x", "pos_y"}

intrinsic_keys == {"f", "sensor_width", "sensor_height", "fov_h_angle",
                   "fov_v_angle", "im_width", "im_height"}

keys == pose_keys \cup intrinsic_keys

\* json.dumps of an attribute value: None becomes null, a number its decimal
\* form (repr, which json.loads reads back as the same float or int)
dumps(value) ==
    IF value = Null THEN [json |-> "null"] ELSE [json |-> "number", repr |-> value]

\* json.loads of a value of the file
loads(j) == IF j.json = "null" THEN Null ELSE j.repr

getattr(key) == IF key \in pose_keys THEN pose[key] ELSE intrinsics[key]

\* save(filename): the file holds the thirteen keys of the instance
save ==
    /\ pc = "idle"
    /\ file' = [tag |-> "file", variables |-> [key \in keys |-> dumps(getattr(key))]]
    /\ called("save", "ok")
    /\ UNCHANGED <<pose, fixed_horizon, horizon_error, C, pc, earth,
                   intrinsics, gps, backends, probe>>

\* load(filename): open raises when there is no file; otherwise every key of
\* the file is set, then _initIntrinsicMatrix() and _initCameraMatrix() are
\* called.  The first raises TypeError on f, sensor_width or im_width None,
\* the second on tilt or height None; the attributes are set by then.
load ==
    /\ pc = "idle"
    /\ IF file = NoFile
       THEN /\ called("load", "FileNotFoundError")
            /\ UNCHANGED <<pose, intrinsics, C>>
       ELSE LET p1 == [key \in pose_keys |-> loads(file.variables[key])]
                in1 == [key \in DOMAIN intrinsics |->
                          IF key \in intrinsic_keys
                          THEN loads(file.variables[key])
                          ELSE intrinsics[key]]
                intrinsicRaises ==
                    in1.f = Null \/ in1.sensor_width = Null \/ in1.im_width = Null
                       \/ in1.im_height = Null
                in2 == IF intrinsicRaises THEN in1 ELSE initIntrinsicMatrix(in1)
                cameraRaises == p1.tilt = Null \/ p1.height = Null
            IN /\ pose' = p1
               /\ intrinsics' = in2
               /\ C' = IF intrinsicRaises \/ cameraRaises THEN C
                       ELSE [initCameraMatrix(p1) EXCEPT !.C1 = in2.C1]
               /\ called("load",
                         IF intrinsicRaises \/ cameraRaises THEN "TypeError" ELSE "ok")
    /\ UNCHANGED <<fixed_horizon, horizon_error, pc, earth, gps, file, backends, probe>>

\* The focal lengths (mm) of the instances that save and load, the heading of
\* the camera (degrees) and its position (degrees of latitude and longitude)
InstanceFocals == {16, 32}

CamHeadings == {90}

CamLocations == {<<50, 11>>}

\* The horizon lines with a slope, and the vector minimize evaluates first:
\* the seed
SlopedLines == {line \in HorizonLines : line[1] # 0}

SeedVector == [i \in 1..Len(fit_parameters) |-> Num(seed(fit_parameters)[i])]

\* Instances that save and load: the construction of another instance, the
\* pose helpers, a fit from objects that evaluates and returns the seed (with
\* cost 0 and recomputed horizon centre 0), save and load.
NextInstance ==
    \/ \E fl \in InstanceFocals, hp \in ConstructorPoses :
          construct(Num(fl), sensor_size, <<im_width, im_height>>, hp)
    \/ \E roll \in RollInputs : fixRoll(roll)
    \/ \E height \in HeightInputs : fixHeight(height)
    \/ \E line \in SlopedLines : fixHorizon(line[1], line[2])
    \/ fitCamParametersFromObjects
    \/ minimizeEvaluates(SeedVector, 0, 0)
    \/ fitReturns(SeedVector, 0, 0)
    \/ save
    \/ load

SpecInstance == Init /\ [][NextInstance]_vars

\* Every operation that could touch the intrinsics, on instances constructed
\* with a pose: those of NextInstance, the anchor setters and a transform.
NextFrame ==
    \/ \E fl \in InstanceFocals, hp \in ConstructorPoses :
          hp[1] # Null /\ construct(Num(fl), sensor_size, <<im_width, im_height>>, hp)
    \/ \E roll \in RollInputs : fixRoll(roll)
    \/ \E height \in HeightInputs : fixHeight(height)
    \/ \E line \in SlopedLines : fixHorizon(line[1], line[2])
    \/ \E angle \in CamHeadings : setCamHeading(angle)
    \/ \E ll \in CamLocations : setCamGPS(ll[1], ll[2])
    \/ transCamToWorld(FALSE, FALSE, TRUE, FALSE)
    \/ fitCamParametersFromObjects
    \/ minimizeEvaluates(SeedVector, 0, 0)
    \/ fitReturns(SeedVector, 0, 0)
    \/ save
    \/ load

SpecFrame == Init /\ [][NextFrame]_vars

\* Arguments of the constructor: focal lengths (None, 0 and numbers of both
\* signs, in mm), sensor sizes (a width, or a width and a height, in mm) and
\* image sizes (pixels), with zero and negative entries.
FocalInputs == {Null, Num(0), Num(16), Num(-16)}

SensorInputs ==
    {[scalar |-> TRUE, w |-> w, h |-> 0] : w \in {8, 0, -8}}
       \cup {[scalar |-> FALSE, w |-> 8, h |-> h] : h \in {6, 0, -6}}

ImageInputs == {<<4000, 3000>>, <<0, 3000>>, <<4000, 0>>, <<-4000, 3000>>, <<4000, -3000>>}

\* Constructions only.
NextConstruct ==
    \E fl \in FocalInputs, ss \in SensorInputs, is \in ImageInputs,
       hp \in ConstructorPoses : construct(fl, ss, is, hp)

SpecConstruct == Init /\ [][NextConstruct]_vars

-----------------------------------------------------------------------------
(* getTopViewOfImage *)

\* A top view that never tests for matplotlib.
getTopViewOfImage_noPlotCheck(extent, do_plot, singular) ==
    /\ pc = "idle"
    /\ called("getTopViewOfImage",
              IF ~backends.cv2_installed THEN "ImportError"
              ELSE IF C = Null THEN "AttributeError"
              ELSE IF singular THEN "LinAlgError"
              ELSE IF do_plot /\ ~backends.plt_installed THEN "NameError"
              ELSE "ok")
    /\ probe' = [fn |-> "getTopViewOfImage", extent |-> extent, do_plot |-> do_plot]
    /\ UNCHANGED <<pose, fixed_horizon, horizon_error, C, pc, earth, intrinsics,
                   gps, file, backends>>

\* getTopViewOfImage(im, extent, scaling, do_plot): extent says whether an
\* extent is given, singular whether a matrix to invert (in getImageExtend or
\* in np.linalg.inv) is singular.  The dependencies are checked first; then
\* self.C is used (by getImageExtend without an extent, by self.C.copy() with
\* one).  Nothing is assigned to the instance.
getTopViewOfImage(extent, do_plot, singular) ==
    /\ pc = "idle"
    /\ called("getTopViewOfImage",
              IF ~backends.cv2_installed THEN "ImportError"
              ELSE IF do_plot /\ ~backends.plt_installed THEN "ImportError"
              ELSE IF C = Null THEN "AttributeError"
              ELSE IF singular THEN "LinAlgError"
              ELSE "ok")
    /\ probe' = [fn |-> "getTopViewOfImage", extent |-> extent, do_plot |-> do_plot]
    /\ UNCHANGED <<pose, fixed_horizon, horizon_error, C, pc, earth, intrinsics,
                   gps, file, backends>>

\* The import of the module finds each optional package or not.
InitTopView ==
    /\ Constructed
    /\ backends \in [cv2_installed : BOOLEAN, plt_installed : BOOLEAN]

\* Top views between the pose helpers and a transform.
NextTopView ==
    \/ \E extent \in BOOLEAN, do_plot \in BOOLEAN, singular \in BOOLEAN :
          getTopViewOfImage(extent, do_plot, singular)
    \/ \E roll \in RollInputs : fixRoll(roll)
    \/ \E height \in HeightInputs : fixHeight(height)
    \/ \E line \in HorizonLines : fixHorizon(line[1], line[2])
    \/ \E gX \in BOOLEAN, gZ \in BOOLEAN, singular \in BOOLEAN :
          transCamToWorld(gX, FALSE, gZ, singular)

SpecTopView == InitTopView /\ [][NextTopView]_vars

-----------------------------------------------------------------------------
(* distanceBearing *)

\* Points are explored up to this distance from the camera along each axis.
MaxCoordinate == 20

\* The world points whose bearing is a whole number of degrees: x / y is 0,
\* 1 or -1 for the offsets x, y from the foot point of the camera (y # 0).
BearingPoints ==
    {<<pose.pos_x.v + k * y, pose.pos_y.v + y>> :
        k \in {-1, 0, 1}, y \in (-MaxCoordinate..MaxCoordinate) \ {0}}

\* The negation of the point pos around the foot point of the camera
Negation(pos) == <<2 * pose.pos_x.v - pos[1], 2 * pose.pos_y.v - pos[2]>>

\* The pair distanceBearing(pos) returns, with the square of the distance in
\* place of np.sqrt(x ** 2 + y ** 2) and the bearing in degrees
DistanceBearing(pos) ==
    LET x == pos[1] - pose.pos_x.v
        y == pos[2] - pose.pos_y.v
    IN [dist2 |-> x * x + y * y, bearing |-> NegArctanDeg(x \div y)]

distanceBearing(pos) ==
    /\ pc = "idle"
    /\ called("distanceBearing", "ok")
    /\ probe' = [fn |-> "distanceBearing", pos |-> pos, result |-> DistanceBearing(pos)]
    /\ UNCHANGED <<pose, fixed_horizon, horizon_error, C, pc, earth, intrinsics,
                   gps, file, backends>>

NextBearing == \E pos \in BearingPoints : distanceBearing(pos)

SpecBearing == Init /\ [][NextBearing]_vars

-----------------------------------------------------------------------------
(* transWorldToCam and transCamToWorld in exact arithmetic *)

\* The tilt whose cosine and sine are 3/5 and 4/5, in degrees
ArcTan43 == [tag |-> "arctan", opposite |-> 4, adjacent |-> 3]

\* 5 cos and 5 sin of a tilt, for the right angles and ArcTan43
Cos5(a) == CASE a = Num(0) -> 5 [] a = Num(90) -> 0 [] a = Num(180) -> -5
             [] a = Num(270) -> 0 [] a = ArcTan43 -> 3

Sin5(a) == CASE a = Num(0) -> 0 [] a = Num(90) -> 5 [] a = Num(180) -> 0
             [] a = Num(270) -> -5 [] a = ArcTan43 -> 4

\* 5 R_tilt, and R_roll or R_head for an angle that is a multiple of 90
R_tilt5(a) == << <<5, 0, 0>>, <<0, Cos5(a), Sin5(a)>>, <<0, -Sin5(a), Cos5(a)>> >>

R_z(a) ==
    LET c == Cos5(a) \div 5
        sn == Sin5(a) \div 5
    IN << <<c, sn, 0>>, <<-sn, c, 0>>, <<0, 0, 1>> >>

\* np.dot of two 3x3 matrices, and of a 3x3 matrix and a vector
Dot33(A, B) ==
    [i \in 1..3 |-> [j \in 1..3 |-> A[i][1] * B[1][j] + A[i][2] * B[2][j] + A[i][3] * B[3][j]]]

Dot3(A, v) == [i \in 1..3 |-> A[i][1] * v[1] + A[i][2] * v[2] + A[i][3] * v[3]]

\* 5 R_roll . R_tilt . R_head and 5 R_tilt . t for the record c that
\* _initCameraMatrix has built the camera matrix from
Rotation5(c) == Dot33(Dot33(R_z(c.roll), R_tilt5(c.angle)), R_z(c.heading))

Translation5(c) == Dot3(R_tilt5(c.angle), <<c.pos_x.v, c.pos_y.v, -c.height.v>>)

\* 5 C for the camera matrix C = C1 . [R_roll . R_tilt . R_head | R_tilt . t]
\* built from the record c, as three rows of four integers
CameraMatrix5(c) ==
    LET M == Rotation5(c)
        t == Translation5(c)
        R == [i \in 1..3 |-> <<M[i][1], M[i][2], M[i][3], t[i]>>]
        f_normed == c.C1.f_normed.v
    IN << [j \in 1..4 |-> f_normed * R[1][j] + c.C1.cx.v * R[3][j]],
          [j \in 1..4 |-> f_normed * R[2][j] + c.C1.cy.v * R[3][j]],
          [j \in 1..4 |-> R[3][j]] >>

\* transWorldToCam: X = np.dot(C, (x, 1)) for the matrix P = 5 C; the image
\* point returned is X[:2] / X[2]
WorldToCam(P, x) ==
    [i \in 1..3 |-> P[i][1] * x[1] + P[i][2] * x[2] + P[i][3] * x[3] + P[i][4]]

\* _transCamToWorldFixedDimension, the reduced matrix: column dimension
\* (counted from 1) is P[:, dimension] * fixed + P[:, 3], the last column is cut
Reduced(P, fixed, dimension) ==
    [i \in 1..3 |-> [j \in 1..3 |->
        IF j = dimension THEN P[i][j] * fixed + P[i][4] ELSE P[i][j]]]

Det3(A) ==
    A[1][1] * (A[2][2] * A[3][3] - A[2][3] * A[3][2])
      - A[1][2] * (A[2][1] * A[3][3] - A[2][3] * A[3][1])
      + A[1][3] * (A[2][1] * A[3][2] - A[2][2] * A[3][1])

\* The adjugate of A: A^-1 = Adj3(A) / Det3(A)
Adj3(A) ==
    << <<A[2][2] * A[3][3] - A[2][3] * A[3][2],
         A[1][3] * A[3][2] - A[1][2] * A[3][3],
         A[1][2] * A[2][3] - A[1][3] * A[2][2]>>,
       <<A[2][3] * A[3][1] - A[2][1] * A[3][3],
         A[1][1] * A[3][3] - A[1][3] * A[3][1],
         A[1][3] * A[2][1] - A[1][1] * A[2][3]>>,
       <<A[2][1] * A[3][2] - A[2][2] * A[3][1],
         A[1][2] * A[3][1] - A[1][1] * A[3][2],
         A[1][1] * A[2][2] - A[1][2] * A[2][1]>> >>

\* A back-projection that does not divide by the entry of the fixed dimension.
transCamToWorldFixedDimension_noRescale(P, X, fixed, dimension) ==
    LET A == Reduced(P, fixed, dimension)
        N == Dot3(Adj3(A), X)
        d == Det3(A) * X[3]
    IN IF X[3] = 0 THEN [status |-> "nan"]
       ELSE IF Det3(A) = 0 THEN [status |-> "LinAlgError"]
       ELSE [status |-> "ok",
             X |-> [i \in 1..3 |->
                      IF i = dimension
                      THEN [num |-> fixed, den |-> 1]
                      ELSE [num |-> 5 * N[i], den |-> d]]]

\* _transCamToWorldFixedDimension(x, fixed, dimension) for the image point
\* x = X[:2] / X[2] and the matrix P = 5 C: np.linalg.solve raises on a
\* singular reduced matrix; otherwise the solution is Adj3(A) . X up to a
\* factor, it is divided by its entry of the fixed dimension, and that entry
\* is overwritten with fixed.  The coordinates are fractions num / den.
transCamToWorldFixedDimension(P, X, fixed, dimension) ==
    LET A == Reduced(P, fixed, dimension)
        N == Dot3(Adj3(A), X)
    IN IF X[3] = 0 THEN [status |-> "nan"]
       ELSE IF Det3(A) = 0 THEN [status |-> "LinAlgError"]
       ELSE [status |-> "ok",
             X |-> [i \in 1..3 |->
                      IF i = dimension
                      THEN [num |-> fixed, den |-> 1]
                      ELSE [num |-> N[i], den |-> N[dimension]]]]

\* transWorldToCam(x) for a world point x
transWorldToCam(x) ==
    /\ pc = "idle"
    /\ called("transWorldToCam", "ok")
    /\ probe' = [fn |-> "transWorldToCam", x |-> x,
                 X |-> WorldToCam(CameraMatrix5(C), x)]
    /\ UNCHANGED <<pose, fixed_horizon, horizon_error, C, pc, earth, intrinsics,
                   gps, file, backends>>

\* transCamToWorld(x, Z=fixed) for the image point x that transWorldToCam has
\* just returned; asList: Z is given as a list with an entry for each point,
\* and each point is transformed separately with fixed[i]
transCamToWorld_Z(fixed, asList) ==
    /\ pc = "idle"
    /\ probe.fn = "transWorldToCam"
    /\ LET dimension == FixedDimension(FALSE, FALSE, TRUE) + 1
           Z == <<fixed>>
           result ==
               IF asList
               THEN transCamToWorldFixedDimension(CameraMatrix5(C), probe.X, Z[1], dimension)
               ELSE transCamToWorldFixedDimension(CameraMatrix5(C), probe.X, fixed, dimension)
       IN /\ probe' = [fn |-> "transCamToWorld", x |-> probe.x, X |-> probe.X,
                       fixed |-> fixed, asList |-> asList, result |-> result]
          /\ ret' = IF result.status = "LinAlgError" THEN Ret("LinAlgError")
                    ELSE [Ret("ok") EXCEPT !.dimension = dimension - 1]
    /\ op' = "transCamToWorld"
    /\ args' = [NoArgs EXCEPT !.Z = TRUE]
    /\ fit_parameters' = <<>>
    /\ entry' = NoEntry
    /\ lastEval' = NoEval
    /\ UNCHANGED <<pose, fixed_horizon, horizon_error, C, pc, earth, intrinsics,
                   gps, file, backends>>

\* The poses and points of the round trips: heights and positions, tilts,
\* rolls and headings with exact sines, and the coordinates of world points.
\* A roll, a heading or a position other than the default is one a fit has left.
RoundTripHeights == {1, 2}

RoundTripTilts == {Num(0), Num(90), ArcTan43, Num(180)}

RoundTripRolls == {Null, Num(90)}

RoundTripHeadings == {Num(0), Num(90)}

RoundTripPositions == {0, 1}

Coordinates == -1..1

\* A camera with f_normed = 4 and the image centre (2, 1), in one of the poses
\* above, with the camera matrix built for it
InitRoundTrip ==
    /\ intrinsics = constructIntrinsics(2, [scalar |-> TRUE, w |-> 2, h |-> 0], <<4, 2>>)
    /\ \E height \in RoundTripHeights, tilt \in RoundTripTilts, roll \in RoundTripRolls,
          heading \in RoundTripHeadings, pos_x \in RoundTripPositions :
          /\ pose = [height |-> Num(height), tilt |-> tilt, roll |-> roll,
                     heading |-> heading, pos_x |-> Num(pos_x), pos_y |-> Num(0)]
          /\ C = initCameraMatrix(pose)
    /\ fixed_horizon = Null
    /\ horizon_error = 0
    /\ pc = "idle"
    /\ op = "__init__"
    /\ args = NoArgs
    /\ fit_parameters = <<>>
    /\ entry = NoEntry
    /\ lastEval = NoEval
    /\ ret = Ret("ok")
    /\ earth = NoCall
    /\ gps = NoAnchor
    /\ file = NoFile
    /\ backends = [cv2_installed |-> TRUE, plt_installed |-> TRUE]
    /\ probe = NoProbe

NextRoundTrip ==
    \/ \E x \in Coordinates \X Coordinates \X Coordinates : transWorldToCam(x)
    \/ \E fixed \in Coordinates, asList \in BOOLEAN : transCamToWorld_Z(fixed, asList)

SpecRoundTrip == InitRoundTrip /\ [][NextRoundTrip]_vars

-----------------------------------------------------------------------------
(* Properties *)

FitOps == {"fitCamParametersFromObjects", "fitCamParametersFromLandmarks",
           "fitCamParametersFromPointCorrespondences", "fitCamParametersFromLengths"}

\* The number of fixed-axis arguments the last call was given
GivenCount == NoneCount(~args.X, ~args.Y, ~args.Z)

\* C1: transCamToWorld raises ValueError exactly when the number of fixed-axis
\* arguments given among X, Y, Z is not one; when exactly one is given and the
\* back-projection succeeds it fixes dimension 0 for X, 1 for Y, 2 for Z; and
\* the rejected call leaves the pose, the horizon state and the camera matrix
\* unchanged.
C1_ExactlyOneFixedAxis ==
    /\ [](op = "transCamToWorld" =>
            /\ (ret.status = "ValueError") <=> (GivenCount # 1)
            /\ (ret.status = "ok" /\ args.X) => ret.dimension = 0
            /\ (ret.status = "ok" /\ args.Y) => ret.dimension = 1
            /\ (ret.status = "ok" /\ args.Z) => ret.dimension = 2)
    /\ [][(op' = "transCamToWorld" /\ ret'.status = "ValueError") =>
            UNCHANGED <<pose, fixed_horizon, horizon_error, C>>]_vars

\* C1, witness: a call that fixes two axes (X and Y) on a camera with a matrix
\* has been rejected.
C1_Witness ==
    /\ op = "transCamToWorld" /\ C # Null
    /\ args.X /\ args.Y /\ ~args.Z
    /\ ret.status = "ValueError"

\* C2 (as claimed): between public calls, once the pose has a height and a
\* tilt, the stored camera matrix equals the matrix rebuilt from the current
\* pose.
C2_CameraMatrixNeverStale ==
    (pc = "idle" /\ pose.height # Null /\ pose.tilt # Null)
        => C = initCameraMatrix(pose)

C4_FixedRollHeightKept ==
    (op \in FitOps) =>
        /\ (entry.roll # Null => pose.roll = entry.roll)
        /\ (entry.height # Null => pose.height = entry.height)

\* C4, witness: a fit has returned and roll and height hold the values that
\* only fixRoll and fixHeight supply.
C4_Witness ==
    /\ op \in FitOps /\ pc = "idle" /\ ret.status = "ok"
    /\ entry.roll \in RollInputs /\ entry.height \in HeightInputs
    /\ pose.roll = entry.roll /\ pose.height = entry.height

\* C5: when a fit routine returns, the last evaluation of the error function
\* was made with the returned vector, each free parameter holds the entry of
\* that vector at its position in the free-parameter list, and the camera
\* matrix is the one built from that pose.
C5_ReturnedVectorInstalled ==
    (op \in FitOps /\ pc = "idle" /\ ret.status = "ok") =>
        /\ lastEval.done /\ lastEval.p = ret.x
        /\ Len(ret.x) = Len(fit_parameters)
        /\ \A i \in 1..Len(fit_parameters) : pose[fit_parameters[i]] = ret.x[i]
        /\ C = initCameraMatrix(pose)

\* C5, witness: a fit over at least two free parameters has returned a vector
\* other than the seed vector.
C5_Witness ==
    /\ op \in FitOps /\ pc = "idle" /\ ret.status = "ok"
    /\ Len(fit_parameters) >= 2
    /\ \E i \in 1..Len(ret.x) : ret.x[i] # Num(seed(fit_parameters)[i])

\* C6 (as claimed): between public calls, once a horizon is fixed and the
\* height is known, tilt is the angle derived from the fixed horizon row and
\* the current height.
C6_TiltFollowsHorizon ==
    (pc = "idle" /\ fixed_horizon # Null /\ pose.height # Null) =>
        pose.tilt = getAngleFromHorizonAndHeight(fixed_horizon.v, pose.height)

\* C7 (as claimed): the value of every evaluation of the error function is
\* the cost plus the horizon penalty, 0.01 * |fixed_horizon - recomputed
\* centre|, if a horizon is fixed (row 0 included), and the cost alone if
\* none is fixed.  Values are in units of 0.01.
C7_PenaltyIffHorizonFixed ==
    lastEval.done =>
        lastEval.value =
            IF fixed_horizon # Null
            THEN 100 * lastEval.cost + Abs(fixed_horizon.v - lastEval.horizon2)
            ELSE 100 * lastEval.cost

\* C8: a fit from point correspondences has pos_x and pos_y in its
\* free-parameter list whatever they held at the call; the other three fit
\* routines have pos_x (pos_y) in the list exactly if it was null at the call.
C8_PositionFreeInPointFit ==
    /\ (op = "fitCamParametersFromPointCorrespondences") =>
          {"pos_x", "pos_y"} \subseteq Range(fit_parameters)
    /\ (op \in FitOps \ {"fitCamParametersFromPointCorrespondences"}) =>
          /\ ("pos_x" \in Range(fit_parameters)) <=> (entry.pos_x = Null)
          /\ ("pos_y" \in Range(fit_parameters)) <=> (entry.pos_y = Null)

\* C8, witness: a fit from point correspondences, entered with both positions
\* non-null, has returned with both fitted.
C8_Witness ==
    /\ op = "fitCamParametersFromPointCorrespondences"
    /\ entry.pos_x # Null /\ entry.pos_y # Null
    /\ pc = "idle" /\ ret.status = "ok"
    /\ {"pos_x", "pos_y"} \subseteq Range(fit_parameters)

\* C9: a landmark fit given a bearing list has heading in its free-parameter
\* list whatever heading held at the call; a landmark fit given none, entered
\* with a non-null heading, leaves heading out of the list and unchanged.
C9_HeadingFreeIffBearing ==
    (op = "fitCamParametersFromLandmarks") =>
        /\ args.bearing => "heading" \in Range(fit_parameters)
        /\ (~args.bearing /\ entry.heading # Null) =>
              /\ "heading" \notin Range(fit_parameters)
              /\ pose.heading = entry.heading

\* C9, witness: a landmark fit with a bearing list, entered with a non-null
\* heading, has returned with heading fitted.
C9_Witness ==
    /\ op = "fitCamParametersFromLandmarks" /\ args.bearing
    /\ entry.heading # Null
    /\ pc = "idle" /\ ret.status = "ok"
    /\ "heading" \in Range(fit_parameters)

\* C10 (as claimed): for every iteration cap max_iter >= 0, transCamToEarth
\* makes at most max_iter back-projections for a point, never raises because
\* the cap is exhausted (an exception comes from the back-projection itself),
\* and returns one column per input point, each with H as third coordinate.
C10_EarthIterationBounded ==
    /\ earth.i <= earth.max_iter
    /\ earth.at = "raised" => earth.error \in {"AttributeError", "LinAlgError"}
    /\ earth.at = "returned" =>
          /\ Len(earth.result) = earth.n
          /\ \A j \in 1..Len(earth.result) : earth.result[j].H = earth.H

\* C10 for caps of at least one: the same statement for max_iter >= 1, which
\* is the part of the claim the code meets.
C10_EarthIterationBoundedFromOne ==
    (earth.max_iter >= 1) => C10_EarthIterationBounded

\* The fit routines that call _fit without resetting a parameter first
PlainFits == {"fitCamParametersFromObjects", "fitCamParametersFromLengths"}

\* A fit has returned normally and nothing was called since.
Fitted == op \in FitOps /\ pc = "idle" /\ ret.status = "ok"

\* C18: fitting is not repeatable.  When a fit has returned, all six pose
\* parameters are non-null.  In the fit that follows it, the only free
\* parameters are tilt and those the routine itself reset to null (pos_x and
\* pos_y by point correspondences, heading by landmarks with a bearing list);
\* a fit from objects or from lengths optimizes tilt only, and its free
\* parameters are among those of the fit before it.
C18_FitNotRepeatable ==
    /\ [](Fitted => \A k \in DOMAIN pose : pose[k] # Null)
    /\ [][(Fitted /\ pc' = "minimize") =>
            /\ \A k \in Range(fit_parameters') :
                  \/ k = "tilt"
                  \/ /\ k \in {"pos_x", "pos_y"}
                     /\ op' = "fitCamParametersFromPointCorrespondences"
                  \/ /\ k = "heading"
                     /\ op' = "fitCamParametersFromLandmarks"
                     /\ args'.bearing
            /\ op' \in PlainFits => fit_parameters' = <<"tilt">>
            /\ (op \in PlainFits /\ op' \in PlainFits) =>
                  Range(fit_parameters') \subseteq Range(fit_parameters)]_vars

\* A fit from lengths runs on a camera whose height was set by an earlier fit
\* (it is neither a constructor height nor a height given to fixHeight), and
\* optimizes tilt only.
C18_Witness ==
    /\ op = "fitCamParametersFromLengths"
    /\ pc = "minimize"
    /\ fit_parameters = <<"tilt">>
    /\ entry.height # Null
    /\ entry.height \notin HeightInputs \cup {hp[1] : hp \in ConstructorPoses}
    /\ lastEval.done

\* C13 (as claimed): a load of a file that save has written completes: it
\* returns, each of the thirteen attributes holds the value of the file, and
\* the intrinsic matrix and the camera matrix are those the two builders give
\* for the loaded attributes, also when the saved height or tilt is null.
C13_LoadCompletes ==
    (op = "load" /\ file # NoFile) =>
        /\ ret.status = "ok"
        /\ \A key \in keys : getattr(key) = loads(file.variables[key])
        /\ intrinsics = initIntrinsicMatrix(intrinsics)
        /\ C = initCameraMatrix(pose)

\* What a call of fixHorizon that returns does: it sets the fixed horizon; it
\* keeps a roll that is fixed and sets a null roll from the slope of the line;
\* with a null height it leaves tilt and the camera matrix alone; with a height
\* it sets tilt from the horizon and the height and rebuilds the camera matrix.
fixHorizonEffect ==
    (op' = "fixHorizon" /\ ret'.status = "ok") =>
        /\ fixed_horizon' # Null
        /\ pose.roll # Null => pose'.roll = pose.roll
        /\ pose.roll = Null =>
              \E line \in HorizonLines : pose'.roll = Num(NegArctanDeg(line[1]))
        /\ pose.height = Null => (pose'.tilt = pose.tilt /\ C' = C)
        /\ pose.height # Null =>
              /\ pose'.tilt =
                    getAngleFromHorizonAndHeight(fixed_horizon'.v, pose.height)
              /\ C' = initCameraMatrix(pose')
        /\ \A k \in DOMAIN pose \ {"roll", "tilt"} : pose'[k] = pose[k]

\* C17 (as claimed): fixHorizon has the effect above, and once fixHorizon has
\* been called on an instance the roll is non-null and is not a free parameter
\* of any later fit.
C17_RollFixedEverAfter ==
    /\ [][fixHorizonEffect]_vars
    /\ [](fixed_horizon # Null =>
            (pose.roll # Null /\ "roll" \notin Range(fit_parameters)))

\* C17 (amended): fixHorizon has the effect above and leaves the roll non-null;
\* a non-null roll stays non-null until a load (or the construction of another
\* instance) writes the roll, and a fit entered with a non-null roll does not
\* have roll among its free parameters.
C17_RollFixedUntilLoaded ==
    /\ [][fixHorizonEffect]_vars
    /\ [][(op' = "fixHorizon" /\ ret'.status = "ok") => pose'.roll # Null]_vars
    /\ [][(pose.roll # Null /\ op' \notin {"load", "__init__"}) =>
            pose'.roll # Null]_vars
    /\ [][(pc = "idle" /\ pc' = "minimize" /\ pose.roll # Null) =>
            "roll" \notin Range(fit_parameters')]_vars

\* C17, witness: on an instance whose horizon is fixed (fixHorizon has left a
\* non-null roll), a load that returned has written a null roll.
C17_Witness ==
    /\ op = "load"
    /\ ret.status = "ok"
    /\ fixed_horizon # Null
    /\ pose.roll = Null

\* C12: the intrinsics are written by construction and by load only: every
\* step of fixRoll, fixHeight, fixHorizon, setCamHeading, setCamGPS, a
\* transform, a fit or save leaves f, sensor_width, sensor_height, im_width,
\* im_height, fov_h_angle, fov_v_angle, f_normed and the intrinsic matrix C1
\* as they were.
C12_IntrinsicsImmutable ==
    [][op' \notin {"__init__", "load"} => intrinsics' = intrinsics]_vars

\* C12, witness: a fit has returned on an instance with a fixed horizon, a
\* heading and a position of the camera and a saved file, whose intrinsics are
\* not those of the first instance (another construction or a load wrote them).
C12_Witness ==
    /\ Fitted
    /\ fixed_horizon # Null
    /\ gps.cam_heading # Null /\ gps.lat # Null
    /\ file # NoFile
    /\ intrinsics.f # Num(focal_length)
    /\ intrinsics.C1 # Null

\* The arguments of the last construction are all positive.
PositiveArguments ==
    /\ probe.focal_length.v > 0
    /\ probe.sensor_size.w > 0
    /\ probe.sensor_size.scalar \/ probe.sensor_size.h > 0
    /\ probe.image_size[1] > 0
    /\ probe.image_size[2] > 0

\* C11 (as claimed): a construction with a focal length that is given and a
\* focal length, sensor dimension or image dimension that is not positive is
\* rejected, and a construction that returns leaves f, sensor_width,
\* sensor_height, im_width and im_height set and positive (never unset because
\* the focal length was 0).
C11_NonPositiveRejected ==
    (op = "__init__" /\ probe.fn = "__init__" /\ probe.focal_length # Null) =>
        /\ ~PositiveArguments => ret.status # "ok"
        /\ ret.status = "ok" =>
              \A key \in {"f", "sensor_width", "sensor_height", "im_width", "im_height"} :
                 intrinsics[key] # Null /\ intrinsics[key].v > 0

\* C14: a missing optional package is reported only by the call that needs it:
\* ImportError is the outcome of a call exactly when the call is
\* getTopViewOfImage and cv2 is not installed, or do_plot is given and
\* matplotlib is not installed; it is raised before the camera matrix is used
\* (a missing matrix or a singular one does not come first), and no other
\* call, nor the construction, fails for a missing package.
C14_ImportErrorIffBackendMissing ==
    /\ op = "getTopViewOfImage" =>
          ((ret.status = "ImportError") <=>
              (~backends.cv2_installed
                  \/ (probe.do_plot /\ ~backends.plt_installed)))
    /\ op # "getTopViewOfImage" => ret.status # "ImportError"

\* C14, witness: with cv2 but without matplotlib, a top view with do_plot on a
\* camera without a camera matrix has raised ImportError.
C14_Witness ==
    /\ op = "getTopViewOfImage"
    /\ backends.cv2_installed /\ ~backends.plt_installed
    /\ probe.do_plot
    /\ C = Null
    /\ ret.status = "ImportError"

\* C16 (as claimed): distanceBearing of a point (not abeam, dy # 0) and of its
\* negation around the foot point of the camera return the same distance and
\* bearings that differ by 180 degrees.
C16_BearingSymmetry ==
    probe.fn = "distanceBearing" =>
        LET there == probe.result
            back == DistanceBearing(Negation(probe.pos))
        IN /\ back.dist2 = there.dist2
           /\ (back.bearing - there.bearing) % 360 = 180

\* A round trip has been made: transWorldToCam of a world point with nonzero
\* depth, then transCamToWorld of the image point with Z fixed to the Z of
\* the world point.
RoundTripMade ==
    /\ probe.fn = "transCamToWorld"
    /\ probe.fixed = probe.x[3]
    /\ probe.X[3] # 0

\* The round trip has returned the world point it started from, with the
\* fixed value itself as Z.
Recovered ==
    /\ probe.result.status = "ok"
    /\ \A i \in 1..3 :
          /\ probe.result.X[i].den # 0
          /\ probe.result.X[i].num = probe.x[i] * probe.result.X[i].den
    /\ probe.result.X[3] = [num |-> probe.fixed, den |-> 1]

\* The centre of the camera with matrix record c, the point that
\* R_roll . R_tilt . R_head takes to -R_tilt . t, has the Z coordinate z.
CentreInPlane(c, z) ==
    z * Det3(Rotation5(c)) = -Dot3(Adj3(Rotation5(c)), Translation5(c))[3]

\* C15 (as claimed): for every pose and every world point with nonzero depth
\* the round trip recovers the point, and the Z returned is the fixed value
\* itself, also when Z is given as a list.
C15_RoundTrip == RoundTripMade => Recovered

\* C15 (amended): the round trip recovers the point, with the fixed value
\* itself as Z, when the point has nonzero depth and does not lie in the plane
\* of constant Z through the centre of the camera.
C15_RoundTripOffCentrePlane ==
    (RoundTripMade /\ ~CentreInPlane(C, probe.fixed)) => Recovered

\* C15, witness: a round trip with Z given as a list has recovered a point off
\* the optical axes of a camera that is rolled and tilted by arctan(4/3).
C15_Witness ==
    /\ RoundTripMade /\ Recovered
    /\ probe.asList
    /\ pose.tilt = ArcTan43 /\ pose.roll # Null
    /\ probe.x[1] # 0 /\ probe.x[2] # 0

====
